---- MODULE Spec2Model ----
(***************************************************************************)
(* FHEAP backend (backend/server.py): the price monitor loop, the          *)
(* opportunity detector, the protection / reward chain, the read-only HTTP *)
(* handlers and the simulated FHE helpers, over a document store.          *)
(*                                                                         *)
(* Python floats are IEEE-754 doubles.  The helpers multiply, divide and   *)
(* subtract doubles and truncate the result to an integer, so the model    *)
(* carries an exact arithmetic of non-negative doubles: a double is a      *)
(* record [m, e] standing for m * 2^e where m is an arbitrary-precision    *)
(* natural number of at most 53 bits, and every operation rounds its exact *)
(* result to nearest, ties to even.  Naturals beyond 32 bits are kept as   *)
(* little-endian sequences of base-10000 limbs.                            *)
(***************************************************************************)
EXTENDS Integers, Sequences, FiniteSets, TLC

\* the element of a one-element set
The(S) == CHOOSE r \in S : TRUE

(***************************************************************************)
(* Arbitrary-precision naturals                                            *)
(***************************************************************************)
Base == 10000

RECURSIVE BigNorm(_)
BigNorm(a) ==
    IF a = <<>> THEN <<>>
    ELSE IF a[Len(a)] = 0 THEN BigNorm(SubSeq(a, 1, Len(a) - 1))
    ELSE a

RECURSIVE BigFromInt(_)
BigFromInt(n) ==
    IF n = 0 THEN <<>> ELSE <<n % Base>> \o BigFromInt(n \div Base)

Limb(a, i) == IF i <= Len(a) THEN a[i] ELSE 0

RECURSIVE BigCmpFrom(_, _, _)
BigCmpFrom(a, b, i) ==
    IF i = 0 THEN 0
    ELSE IF a[i] < b[i] THEN -1
    ELSE IF a[i] > b[i] THEN 1
    ELSE BigCmpFrom(a, b, i - 1)

\* -1, 0 or 1 as a < b, a = b or a > b (both normalised)
BigCmp(a, b) ==
    IF Len(a) < Len(b) THEN -1
    ELSE IF Len(a) > Len(b) THEN 1
    ELSE BigCmpFrom(a, b, Len(a))

RECURSIVE BigAddFrom(_, _, _, _)
BigAddFrom(a, b, i, c) ==
    IF i > Len(a) /\ i > Len(b)
    THEN IF c = 0 THEN <<>> ELSE <<c>>
    ELSE LET s == Limb(a, i) + Limb(b, i) + c
         IN  <<s % Base>> \o BigAddFrom(a, b, i + 1, s \div Base)

BigAdd(a, b) == BigAddFrom(a, b, 1, 0)

RECURSIVE BigSubFrom(_, _, _, _)
BigSubFrom(a, b, i, c) ==
    IF i > Len(a) THEN <<>>
    ELSE LET s == a[i] - Limb(b, i) - c
         IN  IF s < 0 THEN <<s + Base>> \o BigSubFrom(a, b, i + 1, 1)
             ELSE <<s>> \o BigSubFrom(a, b, i + 1, 0)

\* a - b for a >= b
BigSub(a, b) == BigNorm(BigSubFrom(a, b, 1, 0))

\* |a - b|
BigAbsDiff(a, b) == IF BigCmp(a, b) >= 0 THEN BigSub(a, b) ELSE BigSub(b, a)

RECURSIVE BigMulSmallFrom(_, _, _, _)
BigMulSmallFrom(a, k, i, c) ==
    IF i > Len(a)
    THEN IF c = 0 THEN <<>> ELSE <<c>>
    ELSE LET s == a[i] * k + c
         IN  <<s % Base>> \o BigMulSmallFrom(a, k, i + 1, s \div Base)

\* a * k for a limb 0 <= k < Base
BigMulSmall(a, k) == IF k = 0 THEN <<>> ELSE BigMulSmallFrom(a, k, 1, 0)

RECURSIVE BigMulFrom(_, _, _)
BigMulFrom(a, b, i) ==
    IF i > Len(b) THEN <<>>
    ELSE LET p    == BigMulSmall(a, b[i])
             rest == BigMulFrom(a, b, i + 1)
         IN  BigAdd(p, IF rest = <<>> THEN <<>> ELSE <<0>> \o rest)

BigMul(a, b) == IF a = <<>> \/ b = <<>> THEN <<>> ELSE BigMulFrom(a, b, 1)

RECURSIVE BigDivSmallFrom(_, _, _, _)
BigDivSmallFrom(a, d, i, r) ==
    IF i = 0 THEN <<<<>>, r>>
    ELSE LET cur  == r * Base + a[i]
             rest == BigDivSmallFrom(a, d, i - 1, cur % d)
         IN  <<rest[1] \o <<cur \div d>>, rest[2]>>

\* <<a div d, a mod d>> for 0 < d < 200000 (so that r * Base + limb stays in range)
BigDivSmall(a, d) ==
    LET qr == BigDivSmallFrom(a, d, Len(a), 0)
    IN  <<BigNorm(qr[1]), qr[2]>>

BigIsOdd(a) == a # <<>> /\ a[1] % 2 = 1

RECURSIVE BigPow2(_)
\* 2^k by repeated squaring
BigPow2(k) ==
    IF k = 0 THEN <<1>>
    ELSE IF k % 2 = 0
         THEN LET h == BigPow2(k \div 2) IN BigMul(h, h)
         ELSE BigMulSmall(BigPow2(k - 1), 2)

Two15 == 32768
Two16 == 65536
Two53 == BigPow2(53)
Two80 == BigPow2(80)

RECURSIVE BigShr(_, _)
\* a div 2^k
BigShr(a, k) ==
    IF k = 0 \/ a = <<>> THEN a
    ELSE IF k >= 16 THEN BigShr(BigDivSmall(a, Two16)[1], k - 16)
    ELSE BigShr(BigDivSmall(a, 2)[1], k - 1)

\* a * 2^k
BigShl(a, k) == IF k = 0 THEN a ELSE BigMul(a, BigPow2(k))

(***************************************************************************)
(* IEEE-754 doubles, non-negative, round to nearest even                   *)
(***************************************************************************)
FloatZero == [m |-> <<>>, e |-> 0]

RECURSIVE RoundShift(_, _, _, _)
\* n * 2^e with a guard bit g and a sticky bit s below it: shift n right until
\* it has at most 53 bits (sixteen bits at a time while that leaves more than
\* 53), then round to nearest, ties to even
RoundShift(n, e, g, s) ==
    IF BigCmp(n, BigMul(Two53, <<Two16 % Base, Two16 \div Base>>)) >= 0
    THEN LET qr == BigDivSmall(n, Two16)
         IN  RoundShift(qr[1], e + 16, qr[2] >= Two15, s \/ g \/ qr[2] % Two15 # 0)
    ELSE IF BigCmp(n, Two53) >= 0
    THEN RoundShift(BigDivSmall(n, 2)[1], e + 1, BigIsOdd(n), s \/ g)
    ELSE IF g /\ (s \/ BigIsOdd(n))
         THEN LET up == BigAdd(n, <<1>>)
              IN  IF BigCmp(up, Two53) >= 0
                  THEN [m |-> BigDivSmall(up, 2)[1], e |-> e + 1]
                  ELSE [m |-> up, e |-> e]
         ELSE [m |-> n, e |-> e]

\* the double nearest to the integer n times 2^e
FloatRound(n, e) == IF n = <<>> THEN FloatZero ELSE RoundShift(n, e, FALSE, FALSE)

\* an integer below 2^53 converted to float (exact)
FloatOfBig(n) == [m |-> n, e |-> 0]

\* Python's a * b
FloatMul(a, b) == FloatRound(BigMul(a.m, b.m), a.e + b.e)

\* Python's abs(a - b)
FloatAbsSub(a, b) ==
    LET e  == IF a.e < b.e THEN a.e ELSE b.e
        am == BigShl(a.m, a.e - e)
        bm == BigShl(b.m, b.e - e)
    IN  FloatRound(BigAbsDiff(am, bm), e)

\* Python's a / (d1 * d2) for small positive integers d1, d2 whose product is
\* exactly representable: the quotient of a.m * 2^80 keeps more than 53 bits,
\* and a remainder makes the sticky bit
FloatDivInt(a, d1, d2) ==
    LET n  == BigMul(a.m, Two80)
        q1 == BigDivSmall(n, d1)
        q2 == BigDivSmall(q1[1], d2)
    IN  IF a.m = <<>> THEN FloatZero
        ELSE RoundShift(q2[1], a.e - 80, FALSE, q1[2] # 0 \/ q2[2] # 0)

\* Python's a > b
FloatGt(a, b) ==
    LET e == IF a.e < b.e THEN a.e ELSE b.e
    IN  BigCmp(BigShl(a.m, a.e - e), BigShl(b.m, b.e - e)) > 0

\* Python's min(a, b)
FloatMin(a, b) == IF FloatGt(a, b) THEN b ELSE a

\* Python's int(a): truncation toward zero
FloatToInt(a) == IF a.e >= 0 THEN BigShl(a.m, a.e) ELSE BigShr(a.m, 0 - a.e)

RECURSIVE BigToInt(_)
\* a natural below 2^31 as an integer
BigToInt(a) == IF a = <<>> THEN 0 ELSE a[1] + Base * BigToInt(Tail(a))

\* Python's round(a, 2), in hundredths: the exact value of a times 100, rounded
\* to the nearest integer, ties to even
FloatRound2(a) ==
    The({ IF a.e >= 0 THEN BigToInt(BigShl(n, a.e))
          ELSE The({ The({ IF BigCmp(r, BigPow2(0 - a.e - 1)) > 0
                              \/ (BigCmp(r, BigPow2(0 - a.e - 1)) = 0 /\ BigIsOdd(q))
                           THEN BigToInt(q) + 1 ELSE BigToInt(q) :
                           r \in {BigSub(n, BigShl(q, 0 - a.e))} }) :
                     q \in {BigShr(n, 0 - a.e)} }) :
          n \in {BigMulSmall(a.m, 100)} })

(***************************************************************************)
(* Simulated FHE helpers                                                   *)
(*                                                                         *)
(* A string is the sequence of its parts between underscores; a part is    *)
(* a decimal integer literal (int = TRUE, its value in val) or any other   *)
(* text (int = FALSE, the text in txt).  "fhe_enc_2000000000_1000" is      *)
(* << Word("fhe"), Word("enc"), Num(2000000000), Num(1000) >>.             *)
(***************************************************************************)
Word(t) == [int |-> FALSE, txt |-> t, val |-> <<>>]
Num(n)  == [int |-> TRUE, txt |-> "", val |-> n]

\* the float literals of server.py
Lit1000000 == FloatOfBig(<<0, 100>>)
Lit0_001   == FloatDivInt(FloatOfBig(<<1>>), 1000, 1)
Lit0_003   == FloatDivInt(FloatOfBig(<<3>>), 1000, 1)
Lit0_1     == FloatDivInt(FloatOfBig(<<1>>), 10, 1)
Lit0_8     == FloatDivInt(FloatOfBig(<<8>>), 10, 1)
Lit1_0     == FloatOfBig(<<1>>)

\* value is a float, rnd the draw of random.randint(1000, 9999)
\* f"fhe_enc_{n}_{rnd}"
EncInt(n, rnd) == << Word("fhe"), Word("enc"), Num(n), Num(BigFromInt(rnd)) >>

simulate_fhe_encrypt(value, rnd) ==
    EncInt(FloatToInt(FloatMul(value, Lit1000000)), rnd)

\* int(parts[2]) raises on a part that is no integer literal; the bare except
\* turns that into 0.0
simulate_fhe_decrypt(encrypted_value) ==
    IF Len(encrypted_value) >= 3
    THEN IF encrypted_value[3].int
         THEN FloatDivInt(FloatRound(encrypted_value[3].val, 0), 1000, 1000)
         ELSE FloatZero
    ELSE FloatZero

simulate_fhe_sub(enc_a, enc_b, rnd) ==
    simulate_fhe_encrypt(
        FloatAbsSub(simulate_fhe_decrypt(enc_a), simulate_fhe_decrypt(enc_b)), rnd)

simulate_fhe_gt(enc_a, enc_b) ==
    FloatGt(simulate_fhe_decrypt(enc_a), simulate_fhe_decrypt(enc_b))

simulate_fhe_mul(enc_value, multiplier, rnd) ==
    simulate_fhe_encrypt(FloatMul(simulate_fhe_decrypt(enc_value), multiplier), rnd)

(***************************************************************************)
(* ArbitrageCalculations                                                   *)
(***************************************************************************)
calculate_encrypted_spread(price_a, price_b, rnd) ==
    simulate_fhe_sub(price_a, price_b, rnd)

has_arbitrage_opportunity(spread, threshold) == simulate_fhe_gt(spread, threshold)

\* rnd draws the suffix of protection_fee; max_fee is already a string
calculate_protection_fee(spread, volume, max_fee, rnd) ==
    LET fee_rate       == FloatMin(Lit0_003, FloatMul(simulate_fhe_decrypt(spread), Lit0_1))
        protection_fee == simulate_fhe_encrypt(FloatMul(volume, fee_rate), rnd)
    IN  IF simulate_fhe_gt(protection_fee, max_fee) THEN max_fee ELSE protection_fee

LpShare == Lit0_8

calculate_lp_rewards(captured_mev, lp_share, rnd) ==
    simulate_fhe_mul(captured_mev, lp_share, rnd)

(***************************************************************************)
(* Model inputs                                                            *)
(***************************************************************************)
\* how many price samples the monitor may insert, how many database operations
\* may raise and how many HTTP requests may arrive in one behaviour
MaxSamples  == 3
MaxErrors   == 1
MaxRequests == 2

\* draws of random.uniform: base prices in millionths of a dollar
\* (2000 +- 50 dollars); 1998.001999 and 2000.002002 lie 2.000003 apart, just
\* above 0.1% of the higher one
PriceLow  == BigFromInt(1998001999)
PriceHigh == BigFromInt(2000002002)
BasePriceMicros == {PriceLow, PriceHigh}
BasePrice(micros) == FloatDivInt(FloatOfBig(micros), 1000, 1000)

\* draws of random.randint(1000, 9999)
MinSuffix == 1000
Suffixes == {MinSuffix}

\* the counts up to which the success rates are tabulated
RateTableSize == 8

\* the limits and the addresses clients ask for
RequestLimits    == {2}
RequestAddresses == {"0xa1", "0xff"}

\* draws of the other random fields
BlockNumbers == {19000000}
TxHashes     == {"0xtx"}
GasUsed      == {200000}
PoolIds      == {"pool_1"}
\* draws of the five LP addresses (nothing keeps two draws apart)
LpAddressLists == { << "0xa1", "0xa1", "0xb3", "0xb4", "0xb5" >> }

(***************************************************************************)
(* Program constants                                                       *)
(***************************************************************************)
\* 547829.43, 438263.54, 1547829.43 and 1238263.54 in cents, 12.3 in tenths
DashboardMevCents     == 54782943
DashboardRewardCents  == 43826354
StatisticsMevCents    == 154782943
StatisticsRewardCents == 123826354
ResponseTimeTenths    == 123
DefaultPriceLimit == 20
DefaultListLimit  == 50
RewardListLength  == 100
RecentEvents      == 10
Day               == 86400
MonitorInterval == 5
BackoffInterval == 10
PriceWindow     == 10
MinSamples      == 2
TradeVolume     == 100000
MaxFeeDollars   == 3000
NumLps          == 5

pools ==
    << [dex |-> "uniswap_v3", address |-> "0x88e6A0c2dDD26FEEb64F039a2c41296FcB3f5640",
        pair |-> "ETH/USDC"],
       [dex |-> "sushiswap", address |-> "0x397FF1542f962076d0BFE58eA045FfA2d347ACa0",
        pair |-> "ETH/USDC"],
       [dex |-> "curve", address |-> "0xA0b86a33E6417efF66b9b4A3e0C6e31d5F5dd9C7",
        pair |-> "ETH/USDC"] >>

(***************************************************************************)
(* Documents                                                               *)
(***************************************************************************)
\* uuid4 and datetime.utcnow are both drawn from the clock, which every
\* construction advances
EncryptedPrice(now, pool, enc_price, block) ==
    [id |-> now, dex_name |-> pool.dex, pool_address |-> pool.address,
     token_pair |-> pool.pair, encrypted_price |-> enc_price, timestamp |-> now,
     block_number |-> block]

ArbitrageOpportunity(now, price_a, price_b, pair, spread, threshold) ==
    [id |-> now, pool_a |-> price_a.pool_address, pool_b |-> price_b.pool_address,
     dex_a |-> price_a.dex_name, dex_b |-> price_b.dex_name, token_pair |-> pair,
     encrypted_spread |-> spread, encrypted_threshold |-> threshold,
     opportunity_detected |-> TRUE, timestamp |-> now, protection_triggered |-> FALSE]

ProtectionEvent(now, opp, fee, mev, tx, gas) ==
    [id |-> now, arbitrage_opportunity_id |-> opp.id, protection_status |-> "triggered",
     encrypted_protection_fee |-> fee, encrypted_mev_captured |-> mev,
     tx_hash |-> tx, gas_used |-> gas, timestamp |-> now]

LPReward(now, address, pool_id, amount, event, tx) ==
    [id |-> now, lp_address |-> address, pool_id |-> pool_id,
     encrypted_reward_amount |-> amount, protection_event_id |-> event.id,
     distribution_tx_hash |-> tx, claimed |-> FALSE, timestamp |-> now]

NoDoc == [id |-> 0]

\* the fields a response model keeps of a stored document
PriceFields ==
    {"id", "dex_name", "pool_address", "token_pair", "encrypted_price", "timestamp",
     "block_number"}
OpportunityFields ==
    {"id", "pool_a", "pool_b", "dex_a", "dex_b", "token_pair", "encrypted_spread",
     "encrypted_threshold", "opportunity_detected", "timestamp", "protection_triggered"}
EventFields ==
    {"id", "arbitrage_opportunity_id", "protection_status", "encrypted_protection_fee",
     "encrypted_mev_captured", "tx_hash", "gas_used", "timestamp"}
RewardFields ==
    {"id", "lp_address", "pool_id", "encrypted_reward_amount", "protection_event_id",
     "distribution_tx_hash", "claimed", "timestamp"}

\* Model(**doc): every field of the model is in the stored document, and the
\* "_id" the store added is ignored
Parse(fields, doc) == [f \in fields |-> doc[f]]
ParseAll(fields, found) == [x \in DOMAIN found |-> Parse(fields, found[x])]

(***************************************************************************)
(* Document store queries                                                  *)
(***************************************************************************)
RECURSIVE SortByTimestampDesc_Ascending(_)
\* the sort with the direction 1: oldest first
SortByTimestampDesc_Ascending(docs) ==
    IF docs = {} THEN <<>>
    ELSE LET d == CHOOSE d \in docs : \A o \in docs : o.timestamp >= d.timestamp
         IN  <<d>> \o SortByTimestampDesc_Ascending(docs \ {d})

RECURSIVE SortByTimestampDesc(_)
\* cursor.sort("timestamp", -1) over a set of documents
SortByTimestampDesc(docs) ==
    IF docs = {} THEN <<>>
    ELSE LET d == CHOOSE d \in docs : \A o \in docs : o.timestamp <= d.timestamp
         IN  <<d>> \o SortByTimestampDesc(docs \ {d})

\* collection.insert_one(model.dict()): the store keeps the dict under a new "_id"
insert_one(coll, doc, oid) == Append(coll, doc @@ ("_id" :> oid))

Take(seq, n) == IF n < Len(seq) THEN SubSeq(seq, 1, n) ELSE seq

Docs(coll) == {coll[x] : x \in DOMAIN coll}

\* db.<coll>.find(...).sort("timestamp", -1).limit(n).to_list(n) for n > 0
find_latest(docs, n) == Take(SortByTimestampDesc(docs), n)

(***************************************************************************)
(* Tables of the arithmetic the monitor chain performs on the values the   *)
(* model draws (simulate_fhe_decrypt reads the third part of a string      *)
(* only, so a table is indexed by the integers in the strings and by the   *)
(* random draws of the strings it builds)                                  *)
(***************************************************************************)
IntOf(str) == str[3].val

\* line 197: the string stored for a drawn base price
PriceMemo ==
    [micros \in BasePriceMicros, rnd \in Suffixes |->
        simulate_fhe_encrypt(BasePrice(micros), rnd)]

StoredPrices == {IntOf(PriceMemo[micros, MinSuffix]) : micros \in BasePriceMicros}

\* lines 237-240
SpreadMemo ==
    [a \in StoredPrices, b \in StoredPrices, rnd \in Suffixes |->
        calculate_encrypted_spread(EncInt(a, MinSuffix), EncInt(b, MinSuffix), rnd)]

\* line 243: 0.1% of price_a
price_threshold(price_a, rnd) ==
    simulate_fhe_encrypt(FloatMul(simulate_fhe_decrypt(price_a), Lit0_001), rnd)

ThresholdMemo ==
    [a \in StoredPrices, rnd \in Suffixes |-> price_threshold(EncInt(a, MinSuffix), rnd)]

\* line 246
HasMemo ==
    [a \in StoredPrices, b \in StoredPrices |->
        has_arbitrage_opportunity(SpreadMemo[a, b, MinSuffix], ThresholdMemo[a, MinSuffix])]

Spreads == {IntOf(SpreadMemo[a, b, MinSuffix]) : a \in StoredPrices, b \in StoredPrices}

\* lines 272-277: volume, max_fee and the protection fee
protection_fee_of(spread, rnd_max, rnd_fee) ==
    calculate_protection_fee(spread, FloatOfBig(BigFromInt(TradeVolume)),
        simulate_fhe_encrypt(FloatOfBig(BigFromInt(MaxFeeDollars)), rnd_max), rnd_fee)

FeeMemo ==
    [sp \in Spreads, rnd_max \in Suffixes, rnd_fee \in Suffixes |->
        protection_fee_of(EncInt(sp, MinSuffix), rnd_max, rnd_fee)]

\* line 280
mev_captured_of(spread, rnd) ==
    simulate_fhe_mul(spread, FloatOfBig(BigFromInt(TradeVolume)), rnd)

MevMemo ==
    [sp \in Spreads, rnd \in Suffixes |-> mev_captured_of(EncInt(sp, MinSuffix), rnd)]

Mevs == {IntOf(MevMemo[sp, MinSuffix]) : sp \in Spreads}

\* lines 306-316: 80% of the captured MEV, split among the LPs
reward_per_lp_of(mev_captured, rnd_total, rnd_each) ==
    LET lp_reward_total == calculate_lp_rewards(mev_captured, LpShare, rnd_total)
    IN  simulate_fhe_mul(lp_reward_total, FloatDivInt(Lit1_0, NumLps, 1), rnd_each)

RewardMemo ==
    [mev \in Mevs, rnd_total \in Suffixes, rnd_each \in Suffixes |->
        reward_per_lp_of(EncInt(mev, MinSuffix), rnd_total, rnd_each)]

(***************************************************************************)
(* State                                                                   *)
(***************************************************************************)
VARIABLES
    encrypted_prices,        \* db.encrypted_prices, in insertion order
    arbitrage_opportunities, \* db.arbitrage_opportunities
    protection_events,       \* db.protection_events
    lp_rewards,              \* db.lp_rewards
    clock,                   \* source of datetime.utcnow() and of uuid4()
    mon,                     \* the monitor_prices task: where it awaits, its locals
    iter,                    \* iterations of the while loop begun so far
    samples,                 \* price samples inserted so far in this behaviour
    failures,                \* database operations that raised so far
    slept,                   \* what the last asyncio.sleep of the loop was given
    log,                     \* logger.error messages of the current iteration
    trace,                   \* the current iteration: <<"price", pool, id>> for an
                             \* inserted sample, <<"detect", pool, 0>> for a call of
                             \* the detector, <<"done", pool, 0>> for its return
    run,                     \* the detector call in progress or last finished: its
                             \* pair, the index pairs it flagged, whether it met an
                             \* error
    chains_done,             \* opportunities whose protection and rewards went through
    web,                     \* the HTTP side: the request in progress, the last response
    flags,                   \* <<opportunity id, id of price_a, id of price_b>> for every
                             \* opportunity inserted: the samples it was flagged for
    codec                    \* a call of the simulated encryption on its own: the value,
                             \* the string made of it, the value read back

db   == <<encrypted_prices, arbitrage_opportunities, protection_events, lp_rewards>>
vars == <<encrypted_prices, arbitrage_opportunities, protection_events, lp_rewards,
          clock, mon, iter, samples, failures, slept, log, trace, run, chains_done, web,
          flags, codec>>

MonIdle ==
    [pc |-> "insert_price", pool |-> 1, latest_prices |-> <<>>, i |-> 0, j |-> 0,
     opportunity |-> NoDoc, protection_event |-> NoDoc, reward_per_lp |-> <<>>,
     lp_addresses |-> <<>>, k |-> 0]

RunIdle == [status |-> "none", pair |-> "", flagged |-> {}, errors |-> FALSE]

WebIdle == [pc |-> "idle", req |-> [path |-> "", limit |-> 0, lp_address |-> ""],
            loc |-> <<>>,
            resp |-> [status |-> 0], count |-> 0]

CodecIdle == [pc |-> "none", given |-> "", value |-> FloatZero, encrypted_value |-> <<>>,
              decrypted |-> FloatZero]

(***************************************************************************)
(* monitor_prices and the chain it drives                                  *)
(***************************************************************************)
\* the pairs the nested loops of lines 230-231 visit, in their order
PairBefore(p, q) == p[1] < q[1] \/ (p[1] = q[1] /\ p[2] < q[2])

\* a detector that leaves out what an earlier run has compared: only the
\* pairs with the newest sample are flagged
Flagged_NewestOnly(latest) ==
    {p \in (1 .. Len(latest)) \X (1 .. Len(latest)) :
        /\ p[1] = 1
        /\ p[1] < p[2]
        /\ latest[p[1]].dex_name # latest[p[2]].dex_name
        /\ HasMemo[IntOf(latest[p[1]].encrypted_price),
                   IntOf(latest[p[2]].encrypted_price)]}

\* lines 235-248: the pairs of latest that the loops flag
Flagged(latest) ==
    {p \in (1 .. Len(latest)) \X (1 .. Len(latest)) :
        /\ p[1] < p[2]
        /\ latest[p[1]].dex_name # latest[p[2]].dex_name
        /\ HasMemo[IntOf(latest[p[1]].encrypted_price),
                   IntOf(latest[p[2]].encrypted_price)]}

\* the first flagged pair after <<i, j>>, or <<0, 0>>
NextFlagged(latest, i, j) ==
    The({ IF later = {} THEN <<0, 0>>
          ELSE CHOOSE p \in later : \A q \in later : p = q \/ PairBefore(p, q) :
          later \in { {p \in Flagged(latest) : PairBefore(<<i, j>>, p)} } })

\* the for loop stepping over every other pool
NextPool_SkipsOne(m) ==
    IF m.pool + 1 < Len(pools)
    THEN [MonIdle EXCEPT !.pool = m.pool + 2, !.latest_prices = m.latest_prices]
    ELSE [MonIdle EXCEPT !.pc = "sleep", !.pool = m.pool,
                         !.latest_prices = m.latest_prices]

\* lines 194, 212: the for loop moves to the next pool, or the iteration ends
\* and the loop sleeps the normal interval
NextPool(m) ==
    IF m.pool < Len(pools)
    THEN [MonIdle EXCEPT !.pool = m.pool + 1, !.latest_prices = m.latest_prices]
    ELSE [MonIdle EXCEPT !.pc = "sleep", !.pool = m.pool,
                         !.latest_prices = m.latest_prices]

\* lines 230-248: the loops go on after pair <<i, j>> up to the next await
Resume(m, i, j) ==
    The({ IF nxt = <<0, 0>> THEN NextPool(m)
          ELSE [MonIdle EXCEPT !.pc = "insert_opp", !.pool = m.pool,
                               !.latest_prices = m.latest_prices,
                               !.i = nxt[1], !.j = nxt[2]] :
          nxt \in {NextFlagged(m.latest_prices, i, j)} })

Returned(m) == m.pc \in {"insert_price", "sleep"}

\* the ghost variables when the monitor goes from m to its next position n
Ghosts(n, msgs, err) ==
    /\ log' = log \o msgs
    /\ slept' = IF n.pc = "sleep" THEN MonitorInterval ELSE slept
    /\ run' = [run EXCEPT !.status = IF Returned(n) THEN "returned" ELSE @,
                          !.errors = @ \/ err]
    /\ trace' = IF Returned(n) THEN Append(trace, <<"done", mon.pool, 0>>) ELSE trace

CanFail == failures < MaxErrors

\* lines 196-207, the insert returns
InsertPriceOk ==
    /\ mon.pc = "insert_price"
    /\ samples < MaxSamples
    /\ samples' = samples + 1
    /\ \E micros \in BasePriceMicros, rnd \in Suffixes, block \in BlockNumbers :
          encrypted_prices' = insert_one(encrypted_prices,
              EncryptedPrice(clock, pools[mon.pool], PriceMemo[micros, rnd], block),
              clock)
    /\ clock' = clock + 1
    /\ mon' = [mon EXCEPT !.pc = "find"]
    /\ trace' = Append(trace, <<"price", mon.pool, clock>>)
    /\ UNCHANGED <<arbitrage_opportunities, protection_events, lp_rewards, iter,
                   failures, slept, log, run, chains_done, web, flags, codec>>

\* the loop's except waiting the normal interval
InsertPriceFail_NormalSleep ==
    /\ mon.pc = "insert_price"
    /\ CanFail
    /\ failures' = failures + 1
    /\ clock' = clock + 1
    /\ mon' = [MonIdle EXCEPT !.pc = "sleep", !.pool = mon.pool,
                              !.latest_prices = mon.latest_prices]
    /\ log' = Append(log, "Error in price monitoring")
    /\ slept' = MonitorInterval
    /\ UNCHANGED <<db, iter, samples, trace, run, chains_done, web, flags, codec>>

\* lines 207, 214-216: the insert raises, the loop logs and backs off
InsertPriceFail ==
    /\ mon.pc = "insert_price"
    /\ CanFail
    /\ failures' = failures + 1
    /\ clock' = clock + 1
    /\ mon' = [MonIdle EXCEPT !.pc = "sleep", !.pool = mon.pool,
                              !.latest_prices = mon.latest_prices]
    /\ log' = Append(log, "Error in price monitoring")
    /\ slept' = BackoffInterval
    /\ UNCHANGED <<db, iter, samples, trace, run, chains_done, web, flags, codec>>

\* lines 210, 222-248: the detector is called, its query returns, and the
\* loops run to the first flagged pair
FindOk ==
    /\ mon.pc = "find"
    /\ \E latest \in {find_latest({d \in Docs(encrypted_prices) :
                                        d.token_pair = pools[mon.pool].pair},
                                    PriceWindow)} :
       \E m0 \in {[mon EXCEPT !.latest_prices = latest]} :
       \E nxt \in {IF Len(latest) < MinSamples THEN NextPool(m0)
                    ELSE Resume(m0, 0, 0)} :
           /\ mon' = nxt
           /\ slept' = IF nxt.pc = "sleep" THEN MonitorInterval ELSE slept
           /\ run' = [status |-> IF Returned(nxt) THEN "returned" ELSE "running",
                      pair |-> pools[mon.pool].pair, flagged |-> {}, errors |-> FALSE]
           /\ trace' = IF Returned(nxt)
                       THEN trace \o << <<"detect", mon.pool, 0>>, <<"done", mon.pool, 0>> >>
                       ELSE Append(trace, <<"detect", mon.pool, 0>>)
    /\ UNCHANGED <<db, clock, iter, samples, failures, log, chains_done, web, flags, codec>>

\* lines 222-224, 265-266: the query raises, the detector logs and returns
FindFail ==
    /\ mon.pc = "find"
    /\ CanFail
    /\ failures' = failures + 1
    /\ LET nxt == NextPool(mon)
       IN  /\ mon' = nxt
           /\ slept' = IF nxt.pc = "sleep" THEN MonitorInterval ELSE slept
    /\ run' = [status |-> "failed", pair |-> pools[mon.pool].pair, flagged |-> {},
               errors |-> TRUE]
    /\ trace' = trace \o << <<"detect", mon.pool, 0>>, <<"done", mon.pool, 0>> >>
    /\ log' = Append(log, "Error detecting arbitrage")
    /\ UNCHANGED <<db, clock, iter, samples, chains_done, web, flags, codec>>

\* the opportunity built at lines 249-258 for the pair the loops stand at
OpportunityAt(m, now, rnd_spread, rnd_threshold) ==
    LET price_a == m.latest_prices[m.i]
        price_b == m.latest_prices[m.j]
        a       == IntOf(price_a.encrypted_price)
        b       == IntOf(price_b.encrypted_price)
    IN  ArbitrageOpportunity(now, price_a, price_b, pools[m.pool].pair,
            SpreadMemo[a, b, rnd_spread], ThresholdMemo[a, rnd_threshold])

\* lines 249-260: the opportunity is inserted; trigger_protection starts
InsertOpportunityOk ==
    /\ mon.pc = "insert_opp"
    /\ \E rnd_spread \in Suffixes, rnd_threshold \in Suffixes :
          \E opp \in {OpportunityAt(mon, clock, rnd_spread, rnd_threshold)} :
              /\ arbitrage_opportunities' = insert_one(arbitrage_opportunities, opp, clock)
              /\ mon' = [mon EXCEPT !.pc = "insert_event", !.opportunity = opp]
              /\ flags' = flags \cup {<<opp.id, mon.latest_prices[mon.i].id,
                                         mon.latest_prices[mon.j].id>>}
    /\ clock' = clock + 1
    /\ run' = [run EXCEPT !.flagged = @ \cup {<<mon.i, mon.j>>}]
    /\ UNCHANGED <<encrypted_prices, protection_events, lp_rewards, iter, samples, failures,
                   slept, log, trace, chains_done, web, codec>>

\* lines 260, 265-266: the insert raises inside the detector's try: the loops
\* are left, the detector logs and returns
InsertOpportunityFail ==
    /\ mon.pc = "insert_opp"
    /\ CanFail
    /\ failures' = failures + 1
    /\ clock' = clock + 1
    /\ LET nxt == NextPool(mon)
       IN  /\ mon' = nxt
           /\ slept' = IF nxt.pc = "sleep" THEN MonitorInterval ELSE slept
    /\ run' = [run EXCEPT !.status = "failed", !.errors = TRUE]
    /\ trace' = Append(trace, <<"done", mon.pool, 0>>)
    /\ log' = Append(log, "Error detecting arbitrage")
    /\ UNCHANGED <<db, iter, samples, chains_done, web, flags, codec>>

\* lines 272-290: the protection event of an opportunity
ProtectionEventOf(opp, now, rnd_max, rnd_fee, rnd_mev, tx, gas) ==
    LET sp == IntOf(opp.encrypted_spread)
    IN  ProtectionEvent(now, opp, FeeMemo[sp, rnd_max, rnd_fee], MevMemo[sp, rnd_mev],
                        tx, gas)

\* the opportunity is marked as protected when its event is inserted
InsertEventOk_MarksOpportunity ==
    /\ mon.pc = "insert_event"
    /\ \E rnd_max \in Suffixes, rnd_fee \in Suffixes, rnd_mev \in Suffixes,
          tx \in TxHashes, gas \in GasUsed,
          rnd_total \in Suffixes, rnd_each \in Suffixes, addresses \in LpAddressLists :
          \E ev \in {ProtectionEventOf(mon.opportunity, clock, rnd_max, rnd_fee,
                                       rnd_mev, tx, gas)} :
              /\ protection_events' = insert_one(protection_events, ev, clock)
              /\ mon' = [mon EXCEPT
                    !.pc = "insert_reward", !.protection_event = ev,
                    !.reward_per_lp =
                        RewardMemo[IntOf(ev.encrypted_mev_captured), rnd_total, rnd_each],
                    !.lp_addresses = addresses, !.k = 1]
    /\ arbitrage_opportunities' =
          [x \in DOMAIN arbitrage_opportunities |->
              IF arbitrage_opportunities[x].id = mon.opportunity.id
              THEN [arbitrage_opportunities[x] EXCEPT !.protection_triggered = TRUE]
              ELSE arbitrage_opportunities[x]]
    /\ clock' = clock + 1
    /\ UNCHANGED <<encrypted_prices, lp_rewards, iter, samples,
                   failures, slept, log, trace, run, chains_done, web, flags, codec>>

\* lines 272-292, 306-316: the event is inserted; distribute_lp_rewards starts:
\* the total, the addresses and the share of each LP
InsertEventOk ==
    /\ mon.pc = "insert_event"
    /\ \E rnd_max \in Suffixes, rnd_fee \in Suffixes, rnd_mev \in Suffixes,
          tx \in TxHashes, gas \in GasUsed,
          rnd_total \in Suffixes, rnd_each \in Suffixes, addresses \in LpAddressLists :
          \E ev \in {ProtectionEventOf(mon.opportunity, clock, rnd_max, rnd_fee,
                                       rnd_mev, tx, gas)} :
              /\ protection_events' = insert_one(protection_events, ev, clock)
              /\ mon' = [mon EXCEPT
                    !.pc = "insert_reward", !.protection_event = ev,
                    !.reward_per_lp =
                        RewardMemo[IntOf(ev.encrypted_mev_captured), rnd_total, rnd_each],
                    !.lp_addresses = addresses, !.k = 1]
    /\ clock' = clock + 1
    /\ UNCHANGED <<encrypted_prices, arbitrage_opportunities, lp_rewards, iter, samples,
                   failures, slept, log, trace, run, chains_done, web, flags, codec>>

\* lines 292, 299-300: the insert raises, trigger_protection logs and returns,
\* and the detector's loops go on
InsertEventFail ==
    /\ mon.pc = "insert_event"
    /\ CanFail
    /\ failures' = failures + 1
    /\ clock' = clock + 1
    /\ mon' = Resume(mon, mon.i, mon.j)
    /\ Ghosts(mon', <<"Error triggering protection">>, TRUE)
    /\ UNCHANGED <<db, iter, samples, chains_done, web, flags, codec>>

\* lines 318-329: one reward is inserted; after the last one both functions
\* return and the detector's loops go on
InsertRewardOk ==
    /\ mon.pc = "insert_reward"
    /\ \E pool_id \in PoolIds, tx \in TxHashes :
          lp_rewards' = insert_one(lp_rewards,
              LPReward(clock, mon.lp_addresses[mon.k], pool_id, mon.reward_per_lp,
                       mon.protection_event, tx),
              clock)
    /\ clock' = clock + 1
    /\ IF mon.k < Len(mon.lp_addresses)
       THEN /\ mon' = [mon EXCEPT !.k = @ + 1]
            /\ UNCHANGED <<slept, log, trace, run, chains_done>>
       ELSE /\ mon' = Resume(mon, mon.i, mon.j)
            /\ Ghosts(mon', <<>>, FALSE)
            /\ chains_done' = chains_done \cup {mon.opportunity.id}
    /\ UNCHANGED <<encrypted_prices, arbitrage_opportunities, protection_events, iter, samples,
                   failures, web, flags, codec>>

\* a retry: the failed distribution starts over from the first address
InsertRewardFail_Restarts ==
    /\ mon.pc = "insert_reward"
    /\ CanFail
    /\ failures' = failures + 1
    /\ clock' = clock + 1
    /\ mon' = [mon EXCEPT !.k = 1]
    /\ log' = Append(log, "Error distributing LP rewards")
    /\ UNCHANGED <<db, iter, samples, slept, trace, run, chains_done, web, flags, codec>>

\* lines 327, 331-332: the insert raises, distribute_lp_rewards logs and
\* returns, trigger_protection returns, the detector's loops go on
InsertRewardFail ==
    /\ mon.pc = "insert_reward"
    /\ CanFail
    /\ failures' = failures + 1
    /\ clock' = clock + 1
    /\ mon' = Resume(mon, mon.i, mon.j)
    /\ Ghosts(mon', <<"Error distributing LP rewards">>, TRUE)
    /\ UNCHANGED <<db, iter, samples, chains_done, web, flags, codec>>

\* the loop left after an error: only the normal sleep leads back to the top
Sleep_EndsAfterError ==
    /\ mon.pc = "sleep"
    /\ slept = MonitorInterval
    /\ iter' = iter + 1
    /\ clock' = clock + slept
    /\ mon' = [MonIdle EXCEPT !.latest_prices = mon.latest_prices]
    /\ log' = <<>>
    /\ trace' = <<>>
    /\ UNCHANGED <<db, samples, failures, slept, run, chains_done, web, flags, codec>>

\* lines 212, 216, 192: asyncio.sleep returns and the loop starts over
Sleep ==
    /\ mon.pc = "sleep"
    /\ iter' = iter + 1
    /\ clock' = clock + slept
    /\ mon' = [MonIdle EXCEPT !.latest_prices = mon.latest_prices]
    /\ log' = <<>>
    /\ trace' = <<>>
    /\ UNCHANGED <<db, samples, failures, slept, run, chains_done, web, flags, codec>>

monitor_prices ==
    \/ InsertPriceOk \/ InsertPriceFail
    \/ FindOk \/ FindFail
    \/ InsertOpportunityOk \/ InsertOpportunityFail
    \/ InsertEventOk \/ InsertEventFail
    \/ InsertRewardOk \/ InsertRewardFail
    \/ Sleep

(***************************************************************************)
(* The HTTP handlers                                                       *)
(***************************************************************************)
\* lines 336-413: the routes of api_router under its prefix
Routes ==
    {"/api/", "/api/dashboard", "/api/prices", "/api/arbitrage-opportunities",
     "/api/protection-events", "/api/lp-rewards/{lp_address}", "/api/statistics"}

\* the await a handler reaches first
FirstAwait ==
    [path \in Routes \ {"/api/"} |->
        CASE path = "/api/dashboard"               -> "dashboard_find"
          [] path = "/api/prices"                  -> "prices_find"
          [] path = "/api/arbitrage-opportunities" -> "opportunities_find"
          [] path = "/api/protection-events"       -> "events_find"
          [] path = "/api/lp-rewards/{lp_address}" -> "rewards_find"
          [] path = "/api/statistics"              -> "statistics_count_opportunities"]

\* lines 374, 384, 394: limit: int = 20, 50, 50
DefaultLimit ==
    [path \in {"/api/prices", "/api/arbitrage-opportunities", "/api/protection-events"} |->
        IF path = "/api/prices" THEN DefaultPriceLimit ELSE DefaultListLimit]

\* GET requests a client sends: path, the limit query parameter (the default
\* when the client leaves it out) and the lp_address path parameter
Requests ==
    {[path |-> path, limit |-> 0, lp_address |-> ""] :
        path \in {"/api/", "/api/health", "/api/status", "/api/dashboard",
                  "/api/statistics"}}
    \cup {[path |-> path, limit |-> limit, lp_address |-> ""] :
            path \in DOMAIN DefaultLimit, limit \in RequestLimits}
    \cup {[path |-> path, limit |-> DefaultLimit[path], lp_address |-> ""] :
            path \in DOMAIN DefaultLimit}
    \cup {[path |-> "/api/lp-rewards/{lp_address}", limit |-> 0, lp_address |-> address] :
            address \in RequestAddresses}

\* the handler returns (or raises HTTPException) and the response goes out
Respond(status, body) ==
    /\ web' = [web EXCEPT !.pc = "idle", !.loc = <<>>,
                          !.resp = [status |-> status, body |-> body]]
    /\ UNCHANGED <<db, clock, mon, iter, samples, slept, log, trace, run, chains_done,
                   flags, codec>>

\* a request arrives while no other is in progress
Arrives(req) ==
    /\ web.pc = "idle"
    /\ web.count < MaxRequests
    /\ req \in Requests

\* no route matches the path: the framework answers 404
not_found ==
    \E req \in Requests :
        /\ Arrives(req)
        /\ req.path \notin Routes
        /\ web' = [pc |-> "idle", req |-> req, loc |-> <<>>, count |-> web.count + 1,
                   resp |-> [status |-> 404, body |-> [detail |-> "Not Found"]]]
        /\ UNCHANGED <<db, clock, mon, iter, samples, failures, slept, log, trace, run,
                       chains_done, flags, codec>>

\* lines 336-338
root ==
    \E req \in Requests :
        /\ Arrives(req)
        /\ req.path = "/api/"
        /\ web' = [pc |-> "idle", req |-> req, loc |-> <<>>, count |-> web.count + 1,
                   resp |-> [status |-> 200,
                             body |-> [message |-> "FHEAP - FHE Arbitrage Protection API"]]]
        /\ UNCHANGED <<db, clock, mon, iter, samples, failures, slept, log, trace, run,
                       chains_done, flags, codec>>

\* a handler with database queries is entered and runs to its first await
Dispatch ==
    \E req \in Requests :
        /\ Arrives(req)
        /\ req.path \in DOMAIN FirstAwait
        /\ web' = [pc |-> FirstAwait[req.path], req |-> req, count |-> web.count + 1,
                   loc |-> [last_24h |-> clock - Day], resp |-> [status |-> 0]]
        /\ UNCHANGED <<db, clock, mon, iter, samples, failures, slept, log, trace, run,
                       chains_done, flags, codec>>

\* the error swallowed: the handler answers 200 with an empty list
handler_error_Swallowed ==
    /\ web.pc # "idle"
    /\ CanFail
    /\ failures' = failures + 1
    /\ Respond(200, <<>>)

\* lines 369-371, 379-381, 389-391, 399-401, 409-411, 441-443: the awaited
\* query raises; the handler logs and raises HTTPException(500)
handler_error ==
    /\ web.pc # "idle"
    /\ CanFail
    /\ failures' = failures + 1
    /\ Respond(500, [detail |-> "Internal server error"])

\* lines 376-378
get_latest_prices ==
    /\ web.pc = "prices_find"
    /\ Respond(200, ParseAll(PriceFields,
                             find_latest(Docs(encrypted_prices), web.req.limit)))
    /\ UNCHANGED failures

\* lines 386-388
get_arbitrage_opportunities ==
    /\ web.pc = "opportunities_find"
    /\ Respond(200, ParseAll(OpportunityFields,
                             find_latest(Docs(arbitrage_opportunities), web.req.limit)))
    /\ UNCHANGED failures

\* lines 396-398
get_protection_events ==
    /\ web.pc = "events_find"
    /\ Respond(200, ParseAll(EventFields,
                             find_latest(Docs(protection_events), web.req.limit)))
    /\ UNCHANGED failures

\* lines 406-408: no limit on the cursor, to_list(100) cuts the result
get_lp_rewards ==
    /\ web.pc = "rewards_find"
    /\ Respond(200, ParseAll(RewardFields,
                   find_latest({d \in Docs(lp_rewards) :
                                   d.lp_address = web.req.lp_address}, RewardListLength)))
    /\ UNCHANGED failures

\* the rate of an empty store reported as 100
success_rate_FullWhenEmpty(count, total) ==
    IF total > 0
    THEN FloatRound2(FloatMul(FloatDivInt(FloatOfBig(BigFromInt(count)), total, 1),
                              FloatOfBig(BigFromInt(100))))
    ELSE 100 * 100

\* lines 351, 431: round(count / total * 100 if total > 0 else 0, 2), in
\* hundredths of a percent
success_rate(count, total) ==
    IF total > 0
    THEN FloatRound2(FloatMul(FloatDivInt(FloatOfBig(BigFromInt(count)), total, 1),
                              FloatOfBig(BigFromInt(100))))
    ELSE 0

\* success_rate, from a table for small counts
RateMemo ==
    [count \in 0 .. RateTableSize, total \in 0 .. RateTableSize |->
        success_rate(count, total)]

Rate(count, total) ==
    IF count <= RateTableSize /\ total <= RateTableSize
    THEN RateMemo[count, total] ELSE success_rate(count, total)

\* lines 354-355, 438-439: the fixed totals, encrypted
EncryptedTotal(cents, rnd) ==
    simulate_fhe_encrypt(FloatDivInt(FloatOfBig(BigFromInt(cents)), 100, 1), rnd)

TotalMemo ==
    [cents \in {DashboardMevCents, DashboardRewardCents, StatisticsMevCents,
                StatisticsRewardCents}, rnd \in Suffixes |-> EncryptedTotal(cents, rnd)]

\* lines 340-367: the four queries of get_dashboard, one await each, then the
\* response model
get_dashboard ==
    \/ /\ web.pc = "dashboard_find"
       /\ web' = [web EXCEPT !.pc = "dashboard_count_events",
                !.loc = [recent_events |->
                            find_latest(Docs(protection_events), RecentEvents)]]
       /\ UNCHANGED <<db, clock, mon, iter, samples, failures, slept, log, trace, run,
                      chains_done, flags, codec>>
    \/ /\ web.pc = "dashboard_count_events"
       /\ web' = [web EXCEPT !.pc = "dashboard_count_triggered",
                !.loc = [recent_events |-> web.loc.recent_events,
                         total_events |-> Len(protection_events)]]
       /\ UNCHANGED <<db, clock, mon, iter, samples, failures, slept, log, trace, run,
                      chains_done, flags, codec>>
    \/ /\ web.pc = "dashboard_count_triggered"
       /\ web' = [web EXCEPT !.pc = "dashboard_count_opportunities",
                !.loc = [recent_events |-> web.loc.recent_events,
                         total_events |-> web.loc.total_events,
                         active_protections |->
                            Cardinality({d \in Docs(protection_events) :
                                            d.protection_status = "triggered"})]]
       /\ UNCHANGED <<db, clock, mon, iter, samples, failures, slept, log, trace, run,
                      chains_done, flags, codec>>
    \/ /\ web.pc = "dashboard_count_opportunities"
       /\ \E rnd_mev \in Suffixes, rnd_rewards \in Suffixes :
             Respond(200,
                [total_mev_captured |-> TotalMemo[DashboardMevCents, rnd_mev],
                 total_lp_rewards |-> TotalMemo[DashboardRewardCents, rnd_rewards],
                 active_protections |-> web.loc.active_protections,
                 arbitrage_opportunities_detected |-> Len(arbitrage_opportunities),
                 protection_success_rate |->
                    Rate(web.loc.active_protections, Len(arbitrage_opportunities)),
                 recent_events |-> ParseAll(EventFields, web.loc.recent_events)])
       /\ UNCHANGED failures

Since(coll, since) == Cardinality({d \in Docs(coll) : d.timestamp >= since})

\* lines 413-439: the four counts of get_statistics, one await each, then the
\* response
get_statistics ==
    \/ /\ web.pc = "statistics_count_opportunities"
       /\ web' = [web EXCEPT !.pc = "statistics_count_opportunities_24h",
                !.loc = [last_24h |-> web.loc.last_24h,
                         total_opportunities |-> Len(arbitrage_opportunities)]]
       /\ UNCHANGED <<db, clock, mon, iter, samples, failures, slept, log, trace, run,
                      chains_done, flags, codec>>
    \/ /\ web.pc = "statistics_count_opportunities_24h"
       /\ web' = [web EXCEPT !.pc = "statistics_count_protections",
                !.loc = [last_24h |-> web.loc.last_24h,
                         total_opportunities |-> web.loc.total_opportunities,
                         opportunities_24h |->
                            Since(arbitrage_opportunities, web.loc.last_24h)]]
       /\ UNCHANGED <<db, clock, mon, iter, samples, failures, slept, log, trace, run,
                      chains_done, flags, codec>>
    \/ /\ web.pc = "statistics_count_protections"
       /\ web' = [web EXCEPT !.pc = "statistics_count_protections_24h",
                !.loc = [last_24h |-> web.loc.last_24h,
                         total_opportunities |-> web.loc.total_opportunities,
                         opportunities_24h |-> web.loc.opportunities_24h,
                         total_protections |-> Len(protection_events)]]
       /\ UNCHANGED <<db, clock, mon, iter, samples, failures, slept, log, trace, run,
                      chains_done, flags, codec>>
    \/ /\ web.pc = "statistics_count_protections_24h"
       /\ \E rnd_mev \in Suffixes, rnd_rewards \in Suffixes :
             Respond(200,
                [total_arbitrage_opportunities |-> web.loc.total_opportunities,
                 arbitrage_opportunities_24h |-> web.loc.opportunities_24h,
                 total_protections_triggered |-> web.loc.total_protections,
                 protections_triggered_24h |->
                    Since(protection_events, web.loc.last_24h),
                 protection_success_rate |->
                    Rate(web.loc.total_protections, web.loc.total_opportunities),
                 encrypted_total_mev_captured |->
                    TotalMemo[StatisticsMevCents, rnd_mev],
                 encrypted_total_lp_rewards_distributed |->
                    TotalMemo[StatisticsRewardCents, rnd_rewards],
                 average_protection_response_time_ms |-> ResponseTimeTenths])
       /\ UNCHANGED failures

Init ==
    /\ encrypted_prices = <<>>
    /\ arbitrage_opportunities = <<>>
    /\ protection_events = <<>>
    /\ lp_rewards = <<>>
    /\ clock = 1
    /\ mon = MonIdle
    /\ iter = 1
    /\ samples = 0
    /\ failures = 0
    /\ slept = 0
    /\ log = <<>>
    /\ trace = <<>>
    /\ run = RunIdle
    /\ chains_done = {}
    /\ web = WebIdle
    /\ flags = {}
    /\ codec = CodecIdle

Next ==
    \/ monitor_prices
    \/ not_found \/ root \/ Dispatch \/ handler_error
    \/ get_latest_prices \/ get_arbitrage_opportunities \/ get_protection_events
    \/ get_lp_rewards \/ get_dashboard \/ get_statistics

Spec == Init /\ [][Next]_vars

\* the monitor task on its own (no handler writes a variable the task reads
\* but the store it appends to): the event loop keeps scheduling it, and every
\* call it awaits returns or raises
SpecLive == Init /\ [][monitor_prices]_vars /\ WF_vars(monitor_prices)

(***************************************************************************)
(* simulate_fhe_encrypt and simulate_fhe_decrypt called on their own       *)
(***************************************************************************)
\* the values handed to simulate_fhe_encrypt: the floats k / 1000000 for k up
\* to MaxMicros
MaxMicros == 300
Millionths(k) == FloatDivInt(FloatOfBig(BigFromInt(k)), 1000, 1000)
CodecValues == {Millionths(k) : k \in 0 .. MaxMicros}

\* the ends of random.randint(1000, 9999)
MaxSuffix == 9999
CodecSuffixes == {MinSuffix, MaxSuffix}

\* strings handed to simulate_fhe_decrypt that simulate_fhe_encrypt did not
\* make: "", "garbage", "fhe_enc", "fhe_enc_x_1000", "a_b_5"
ForeignStrings ==
    { << Word("") >>, << Word("garbage") >>, << Word("fhe"), Word("enc") >>,
      << Word("fhe"), Word("enc"), Word("x"), Num(BigFromInt(MinSuffix)) >>,
      << Word("a"), Word("b"), Num(BigFromInt(5)) >> }

\* lines 112-116
Encrypt ==
    /\ codec.pc = "encrypt"
    /\ \E rnd \in CodecSuffixes :
          codec' = [codec EXCEPT !.pc = "decrypt",
                                 !.encrypted_value = simulate_fhe_encrypt(codec.value, rnd)]
    /\ UNCHANGED <<db, clock, mon, iter, samples, failures, slept, log, trace, run,
                   chains_done, web, flags>>

\* lines 118-127
Decrypt ==
    /\ codec.pc = "decrypt"
    /\ codec' = [codec EXCEPT !.pc = "done",
                              !.decrypted = simulate_fhe_decrypt(codec.encrypted_value)]
    /\ UNCHANGED <<db, clock, mon, iter, samples, failures, slept, log, trace, run,
                   chains_done, web, flags>>

InitCodec ==
    /\ encrypted_prices = <<>>
    /\ arbitrage_opportunities = <<>>
    /\ protection_events = <<>>
    /\ lp_rewards = <<>>
    /\ clock = 1
    /\ mon = MonIdle
    /\ iter = 1
    /\ samples = 0
    /\ failures = 0
    /\ slept = 0
    /\ log = <<>>
    /\ trace = <<>>
    /\ run = RunIdle
    /\ chains_done = {}
    /\ web = WebIdle
    /\ flags = {}
    /\ codec \in {[CodecIdle EXCEPT !.pc = "encrypt", !.given = "value", !.value = v] :
                     v \in CodecValues}
                \cup {[CodecIdle EXCEPT !.pc = "decrypt", !.given = "string",
                                        !.encrypted_value = s] : s \in ForeignStrings}

NextCodec == Encrypt \/ Decrypt

SpecCodec == InitCodec /\ [][NextCodec]_vars

(***************************************************************************)
(* Properties                                                              *)
(***************************************************************************)
\* the iterations a behaviour can begin: every one but the last inserts a
\* sample or ends in an error
MaxIterations == MaxSamples + MaxErrors + 1

\* C1: monitor_prices never terminates on its own: whenever an iteration has
\* ended, with or without an error, and the loop is in its sleep, the loop
\* eventually stands at the top of the next iteration.
C1_MonitorNeverTerminates ==
    \A n \in 1 .. MaxIterations :
        (mon.pc = "sleep" /\ iter = n) ~> (mon.pc = "insert_price" /\ iter = n + 1)

\* an iteration was begun after one that ended in the loop's error handler
C1_Witness == iter > 1 /\ mon.pc = "insert_price" /\ slept = BackoffInterval

\* the samples the current iteration has inserted
IterationSamples ==
    {d \in Docs(encrypted_prices) :
        \E x \in DOMAIN trace : trace[x][1] = "price" /\ trace[x][3] = d.id}

\* C2: an iteration that completes without error has persisted exactly one
\* sample for each of the three pools in the configured order, and the
\* detector ran for each pool after its sample was persisted and returned
\* before the next pool's sample was persisted.
C2_IterationOrder ==
    (mon.pc = "sleep" /\ log = <<>>) =>
        /\ Len(trace) = 3 * Len(pools)
        /\ \A p \in DOMAIN pools :
              /\ trace[3 * p - 2][1] = "price" /\ trace[3 * p - 2][2] = p
              /\ trace[3 * p - 1] = <<"detect", p, 0>>
              /\ trace[3 * p] = <<"done", p, 0>>
              /\ \E d \in IterationSamples :
                    /\ d.id = trace[3 * p - 2][3]
                    /\ d.dex_name = pools[p].dex
                    /\ d.pool_address = pools[p].address
                    /\ d.token_pair = pools[p].pair
        /\ Cardinality(IterationSamples) = Len(pools)
        /\ IterationSamples =
              {encrypted_prices[x] :
                  x \in Len(encrypted_prices) - Len(pools) + 1 .. Len(encrypted_prices)}

\* an iteration without error in which the detector flagged a pair
C2_Witness ==
    /\ mon.pc = "sleep" /\ log = <<>>
    /\ Len(trace) = 3 * Len(pools)
    /\ \E o \in Docs(arbitrage_opportunities) : o.timestamp > trace[1][3]

\* the stored samples of the pair of the detector's last call
RunSamples == {d \in Docs(encrypted_prices) : d.token_pair = run.pair}

\* the spread of two stored prices is strictly above 0.1% of the first, in
\* exact arithmetic on millionths: 1000 * |a - b| > a
SpreadAboveThreshold(price_a, price_b) ==
    BigCmp(BigMulSmall(BigAbsDiff(IntOf(price_a.encrypted_price),
                                  IntOf(price_b.encrypted_price)), 1000),
           IntOf(price_a.encrypted_price)) > 0

\* C3: a detector call that met no error (seen when it has returned, before
\* the loop inserts the next sample) looked at the (at most 10) most
\* recent stored samples of its pair, flagged nothing when they were fewer
\* than 2, and flagged two of them (the more recent one as price_a) if and
\* only if they come from different venues and |price_a - price_b| is
\* strictly above 0.1% of price_a; every stored opportunity has two different
\* venues and opportunity_detected = true.
C3_FlagsExactlyAboveThreshold ==
    /\ (run.status = "returned" /\ ~run.errors /\ Returned(mon)) =>
          /\ Len(mon.latest_prices) =
                IF Cardinality(RunSamples) < PriceWindow
                THEN Cardinality(RunSamples) ELSE PriceWindow
          /\ \A x \in DOMAIN mon.latest_prices :
                /\ mon.latest_prices[x] \in RunSamples
                /\ \A y \in DOMAIN mon.latest_prices :
                      x < y => mon.latest_prices[x].timestamp
                                  > mon.latest_prices[y].timestamp
                /\ \A d \in RunSamples :
                      (\A y \in DOMAIN mon.latest_prices : mon.latest_prices[y] # d)
                          => d.timestamp < mon.latest_prices[x].timestamp
          /\ Len(mon.latest_prices) < MinSamples => run.flagged = {}
          /\ \A x \in DOMAIN mon.latest_prices, y \in DOMAIN mon.latest_prices :
                x < y =>
                    (<<x, y>> \in run.flagged <=>
                        /\ mon.latest_prices[x].dex_name # mon.latest_prices[y].dex_name
                        /\ SpreadAboveThreshold(mon.latest_prices[x],
                                                mon.latest_prices[y]))
    /\ \A o \in Docs(arbitrage_opportunities) :
          o.dex_a # o.dex_b /\ o.opportunity_detected

\* where in a collection the documents with a given value of a field stand
Where(coll, field, value) == {x \in DOMAIN coll : coll[x][field] = value}

\* C4: an opportunity is persisted before its protection event and the event
\* before its rewards: every stored event has status 'triggered' and
\* references an opportunity stored before it, no two events reference one
\* opportunity, every stored reward references an event stored before it, a
\* chain that completed without error has exactly one event and exactly
\* five rewards, and no event has more than five rewards.
C4_ChainInvariant ==
    /\ \A e \in Docs(protection_events) :
          /\ e.protection_status = "triggered"
          /\ \E o \in Docs(arbitrage_opportunities) :
                o.id = e.arbitrage_opportunity_id /\ o["_id"] < e["_id"]
          /\ Cardinality(Where(protection_events, "arbitrage_opportunity_id",
                               e.arbitrage_opportunity_id)) = 1
          /\ Cardinality(Where(lp_rewards, "protection_event_id", e.id)) <= NumLps
    /\ \A r \in Docs(lp_rewards) :
          \E e \in Docs(protection_events) :
              e.id = r.protection_event_id /\ e["_id"] < r["_id"]
    /\ \A o \in Docs(arbitrage_opportunities) :
          o.id \in chains_done =>
              /\ Cardinality(Where(protection_events, "arbitrage_opportunity_id",
                                   o.id)) = 1
              /\ \A e \in Docs(protection_events) :
                    e.arbitrage_opportunity_id = o.id =>
                        Cardinality(Where(lp_rewards, "protection_event_id", e.id))
                            = NumLps

\* two chains have completed
C4_Witness == Cardinality(chains_done) >= 2 /\ Len(lp_rewards) >= 2 * NumLps

Prefix(before, after) ==
    Len(before) <= Len(after) /\ SubSeq(after, 1, Len(before)) = before

\* C5: every step leaves every stored record in place and unchanged (a
\* collection only grows at its end), a step of an HTTP handler leaves the
\* four collections as they are, and every stored opportunity still has
\* protection_triggered = false, the value it is inserted with, also when
\* its protection event is stored.
C5_RecordsOnlyCreated ==
    /\ [][/\ Prefix(encrypted_prices, encrypted_prices')
          /\ Prefix(arbitrage_opportunities, arbitrage_opportunities')
          /\ Prefix(protection_events, protection_events')
          /\ Prefix(lp_rewards, lp_rewards')
          /\ web' # web => db' = db]_vars
    /\ [](\A o \in Docs(arbitrage_opportunities) : ~o.protection_triggered)

\* an opportunity whose chain completed, read by a handler afterwards
C5_Witness ==
    /\ web.pc = "idle" /\ web.resp.status = 200
    /\ web.req.path = "/api/arbitrage-opportunities"
    /\ \E x \in DOMAIN web.resp.body :
          web.resp.body[x].id \in chains_done /\ ~web.resp.body[x].protection_triggered

\* C6: when a database operation fails in a handler, the request is answered
\* with status 500 and detail 'Internal server error', no stored record
\* changes, the monitor task is where it was, and the handler side is idle
\* again, ready for the next request.
C6_HandlerFailure ==
    /\ [][(failures' > failures /\ web' # web) =>
            /\ web.pc # "idle"
            /\ web.req.path \in Routes \ {"/api/"}
            /\ web'.resp = [status |-> 500,
                            body |-> [detail |-> "Internal server error"]]
            /\ web'.pc = "idle"
            /\ db' = db
            /\ mon' = mon]_vars
    /\ [](web.resp.status = 500 => web.pc = "idle")

\* a handler has failed (the one failure, and the monitor logged none), a
\* later request was answered with 200 and the monitor finished its iteration
C6_Witness ==
    /\ failures = 1 /\ iter = 1 /\ log = <<>> /\ mon.pc = "sleep"
    /\ web.count = 2 /\ web.pc = "idle" /\ web.resp.status = 200

\* what the function that catches a failure at this await logs
MessageAt(pc) ==
    CASE pc = "insert_price"  -> "Error in price monitoring"
      [] pc = "find"          -> "Error detecting arbitrage"
      [] pc = "insert_opp"    -> "Error detecting arbitrage"
      [] pc = "insert_event"  -> "Error triggering protection"
      [] pc = "insert_reward" -> "Error distributing LP rewards"

\* C7 as claimed: an iteration in which any step logged an error ends in the
\* backoff sleep of 10 s.
C7_AnyErrorBacksOff ==
    (mon.pc = "sleep" /\ log # <<>>) => slept = BackoffInterval

\* C7 as amended: every failing step of the monitor chain logs its error; a
\* failing price insert ends the iteration in the sleep of 10 s; a failure in
\* the detector, in trigger_protection or in distribute_lp_rewards is caught
\* there, the iteration goes on, and it ends in the normal sleep of 5 s.
C7_BackoffOnlyForPriceInsert ==
    /\ [][(failures' > failures /\ web' = web) =>
            /\ log' = Append(log, MessageAt(mon.pc))
            /\ mon.pc = "insert_price" => mon'.pc = "sleep" /\ slept' = BackoffInterval
            /\ mon.pc # "insert_price" =>
                  slept' = IF mon'.pc = "sleep" THEN MonitorInterval ELSE slept]_vars
    /\ [](mon.pc = "sleep" =>
            slept = IF \E x \in DOMAIN log : log[x] = "Error in price monitoring"
                    THEN BackoffInterval ELSE MonitorInterval)

\* an iteration with an error inside trigger_protection, ended in the normal sleep
C7_Witness ==
    mon.pc = "sleep" /\ log = <<"Error triggering protection">> /\ slept = MonitorInterval

\* the step in which the handler waiting at pc answers 200
Answers(pc) == web.pc = pc /\ web'.pc = "idle" /\ web'.resp.status = 200

\* body holds the n most recent documents of coll (all of them when there are
\* fewer), most recent first, each with the values of its stored fields
MostRecent(body, coll, fields, n) ==
    /\ Len(body) = IF n < Len(coll) THEN n ELSE Len(coll)
    /\ \A x \in DOMAIN body :
          /\ DOMAIN body[x] = fields
          /\ \E d \in Docs(coll) : \A f \in fields : body[x][f] = d[f]
          /\ \A y \in DOMAIN body : x < y => body[x].timestamp >= body[y].timestamp
          /\ \A y \in DOMAIN body : x # y => body[x].id # body[y].id
          /\ \A d \in Docs(coll) :
                (\A y \in DOMAIN body : body[y].id # d.id)
                    => d.timestamp <= body[x].timestamp

\* C8: for a positive limit the prices, arbitrage-opportunities and
\* protection-events handlers return exactly min(limit, stored) records, the
\* most recent by timestamp, most recent first, each with the field values
\* stored; the lp-rewards handler returns only stored rewards of the address
\* asked for, at most 100, most recent first.
C8_ListsMostRecent ==
    [][/\ Answers("prices_find") =>
            /\ web.req.limit > 0
            /\ MostRecent(web'.resp.body, encrypted_prices, PriceFields, web.req.limit)
       /\ Answers("opportunities_find") =>
            /\ web.req.limit > 0
            /\ MostRecent(web'.resp.body, arbitrage_opportunities, OpportunityFields,
                          web.req.limit)
       /\ Answers("events_find") =>
            /\ web.req.limit > 0
            /\ MostRecent(web'.resp.body, protection_events, EventFields,
                          web.req.limit)
       /\ Answers("rewards_find") =>
            /\ Len(web'.resp.body) <= RewardListLength
            /\ \A x \in DOMAIN web'.resp.body :
                  /\ web'.resp.body[x].lp_address = web.req.lp_address
                  /\ DOMAIN web'.resp.body[x] = RewardFields
                  /\ \E d \in Docs(lp_rewards) :
                        \A f \in RewardFields : web'.resp.body[x][f] = d[f]
                  /\ \A y \in DOMAIN web'.resp.body :
                        x < y => web'.resp.body[x].timestamp
                                    >= web'.resp.body[y].timestamp]_vars

\* the two most recent of three stored prices were returned for limit = 2
C8_Witness ==
    /\ web.pc = "idle" /\ web.resp.status = 200
    /\ web.req.path = "/api/prices" /\ web.req.limit = 2
    /\ Len(encrypted_prices) = 3
    /\ Len(web.resp.body) = 2
    /\ web.resp.body[1].id = encrypted_prices[3].id
    /\ web.resp.body[2].id = encrypted_prices[2].id

\* C9: a GET of /api/health is answered with status 200, and so is a GET of
\* /api/.
C9_HealthAndRootAnswer200 ==
    (web.pc = "idle" /\ web.req.path \in {"/api/health", "/api/"})
        => web.resp.status = 200

\* the amounts, in millionths, of the rewards of an event
RewardAmounts(e) ==
    {IntOf(lp_rewards[x].encrypted_reward_amount) :
        x \in Where(lp_rewards, "protection_event_id", e.id)}

\* C10: when the five rewards of a protection event are stored they carry
\* the same amount, five times that amount is at most 80% of the event's
\* captured MEV and short of it by less than the six truncations to
\* millionths lose, and the captured MEV is the opportunity's spread times
\* 100000.
C10_RewardsAre80PercentOfMev ==
    \A e \in Docs(protection_events) :
        Cardinality(Where(lp_rewards, "protection_event_id", e.id)) = NumLps =>
            /\ Cardinality(RewardAmounts(e)) = 1
            /\ \A amount \in RewardAmounts(e) :
                  /\ BigCmp(BigMulSmall(amount, 10 * NumLps),
                            BigMulSmall(IntOf(e.encrypted_mev_captured), 8)) <= 0
                  /\ BigCmp(BigAdd(BigMulSmall(amount, 10 * NumLps),
                                   BigFromInt(10 * (NumLps + 1))),
                            BigMulSmall(IntOf(e.encrypted_mev_captured), 8)) > 0
            /\ \A o \in Docs(arbitrage_opportunities) :
                  o.id = e.arbitrage_opportunity_id =>
                      IntOf(e.encrypted_mev_captured)
                          = BigMul(IntOf(o.encrypted_spread), BigFromInt(TradeVolume))
\* the comparison of lines 235-246 on two stored samples
FlagsPair(price_a, price_b) ==
    /\ price_a.dex_name # price_b.dex_name
    /\ HasMemo[IntOf(price_a.encrypted_price), IntOf(price_b.encrypted_price)]

\* the opportunities inserted for the samples with ids a and b
RecordsFor(a, b) == {t \in flags : t[2] = a /\ t[3] = b}

\* C11: the detector does not deduplicate: a detection run that returned
\* without an error has inserted an opportunity record of its own (one newer
\* than the newest sample of its window) for every pair of samples of its
\* window that the comparison flags, whether or not an earlier run already
\* recorded that pair; every record is one stored opportunity for one pair,
\* and each opportunity whose chain went through has one protection event of
\* its own and that event five rewards.
C11_NoDeduplication ==
    /\ (run.status = "returned" /\ ~run.errors /\ Returned(mon)) =>
          \A i, j \in 1 .. Len(mon.latest_prices) :
              (i < j /\ FlagsPair(mon.latest_prices[i], mon.latest_prices[j])) =>
                  \E t \in RecordsFor(mon.latest_prices[i].id, mon.latest_prices[j].id) :
                      t[1] > mon.latest_prices[1].timestamp
    /\ \A t \in flags :
          /\ Cardinality(Where(arbitrage_opportunities, "id", t[1])) = 1
          /\ \A u \in flags : u[1] = t[1] => u = t
          /\ t[1] \in chains_done =>
                /\ Cardinality(Where(protection_events, "arbitrage_opportunity_id",
                                     t[1])) = 1
                /\ \A e \in Docs(protection_events) :
                      e.arbitrage_opportunity_id = t[1] =>
                          Cardinality(Where(lp_rewards, "protection_event_id", e.id))
                              = NumLps

\* two opportunities for the same pair of samples, both chains complete
C11_Witness ==
    \E t \in flags, u \in flags :
        /\ t[1] # u[1] /\ t[2] = u[2] /\ t[3] = u[3]
        /\ {t[1], u[1]} \subseteq chains_done

\* a == b of two floats
FloatEq(a, b) == ~FloatGt(a, b) /\ ~FloatGt(b, a)

\* C12: the simulated encryption is reversible: a value that is a whole number
\* of millionths comes back from simulate_fhe_decrypt(simulate_fhe_encrypt(v))
\* as v, whatever suffix the string got, and a string that
\* simulate_fhe_encrypt did not make decrypts to 0.0
C12_EncryptionReversible ==
    codec.pc = "done" =>
        IF codec.given = "value"
        THEN FloatEq(codec.decrypted, codec.value)
        ELSE FloatEq(codec.decrypted, FloatZero)

\* the round trip over the values other than 0.000249 and 0.000251
C12_ReversibleElsewhere ==
    (codec.pc = "done" /\ codec.given = "value"
     /\ codec.value \notin {Millionths(249), Millionths(251)}) =>
        FloatEq(codec.decrypted, codec.value)

\* a string without an integer third part decrypts to 0.0
C12_ForeignStringsDecryptToZero ==
    (codec.pc = "done" /\ codec.given = "string"
     /\ ~(Len(codec.encrypted_value) >= 3 /\ codec.encrypted_value[3].int)) =>
        FloatEq(codec.decrypted, FloatZero)

\* a response of a handler to the request in hand
Answered(path) ==
    web.pc = "idle" /\ web.req.path = path /\ web.resp.status = 200

\* C13: the protection_success_rate of GET /api/statistics is between 0 and
\* 100 (in hundredths: 0 and 10000), whatever the monitor inserts between the
\* handler's counts.
C13_StatisticsRateWithinBounds ==
    Answered("/api/statistics") =>
        web.resp.body.protection_success_rate \in 0 .. 100 * 100

\* C14: the protection_success_rate of GET /api/dashboard is between 0 and
\* 100 (in hundredths: 0 and 10000), and 0 when the handler counted no
\* opportunity or none is stored, whatever the monitor inserts between the
\* handler's counts.
C14_DashboardRateWithinBounds ==
    Answered("/api/dashboard") =>
        /\ web.resp.body.protection_success_rate \in 0 .. 100 * 100
        /\ web.resp.body.arbitrage_opportunities_detected = 0 =>
              web.resp.body.protection_success_rate = 0
        /\ arbitrage_opportunities = <<>> =>
              web.resp.body.protection_success_rate = 0

\* the monitor inserted between the awaits of one call: no event when the
\* recent events were read, one when the events were counted, two
\* opportunities when those were counted
C14_Witness ==
    /\ Answered("/api/dashboard")
    /\ web.resp.body.recent_events = <<>>
    /\ web.resp.body.active_protections = 1
    /\ web.resp.body.arbitrage_opportunities_detected = 2
    /\ web.resp.body.protection_success_rate = 50 * 100

====
